---- MODULE Spec2Model ----
(***************************************************************************)
(* Model of app.py, the Streamlit product recommender.                     *)
(*                                                                         *)
(* State: the artifact files on disk, the result of load_artifacts (the    *)
(* module-level globals model, co_view_top, popular_items, prod_meta_index,*)
(* prod_meta_by_itemid, cat_rel_map), and the locals of the last run of    *)
(* the "Get Recommendations" handler.                                      *)
(*                                                                         *)
(* Values: item ids and categories are strings; item codes are the         *)
(* integers the item encoder assigns (0-based); dict keys made with str()  *)
(* are strings.  A pandas NaN category cell behaves in the code like one   *)
(* more truthy category value, so it is covered by the category strings.   *)
(***************************************************************************)
EXTENDS Integers, Sequences, FiniteSets, TLC

VARIABLES disk, pc, err, art, req

vars == <<disk, pc, err, art, req>>

(***************************************************************************)
(* Bounds of the model.                                                    *)
(***************************************************************************)
\* largest slider value the model explores (the slider itself allows 1..20)
MaxN == 2
\* longest ranking / co-view list / popularity list stored in an artifact
MaxLen == 2
\* most rows of prod_meta.csv
MaxRows == 2

(***************************************************************************)
(* Program constants.                                                      *)
(***************************************************************************)
SliderMin == 1
SliderMax == 20
AlsFactor == 4
CoFactor == 4
PopFactor == 6

(***************************************************************************)
(* Generic helpers.                                                        *)
(***************************************************************************)
Range(s) == {s[i] : i \in 1..Len(s)}

Min(a, b) == IF a <= b THEN a ELSE b

SeqsUpTo(S, n) == UNION {[1..k -> S] : k \in 0..n}

\* Python slice s[:n]
Take(s, n) == SubSeq(s, 1, Min(Len(s), n))

\* Python dicts are functions; d.get(k, default)
EmptyDict == [k \in {} |-> {}]

Get(d, k, default) == IF k \in DOMAIN d THEN d[k] ELSE default

\* d[k] = v
Put(d, k, v) == [x \in (DOMAIN d) \cup {k} |-> IF x = k THEN v ELSE d[x]]

\* the outcome of an expression that may raise
Raised == [exc |-> TRUE]

Returned(v) == [exc |-> FALSE, val |-> v]

(***************************************************************************)
(* The label encoders (user_le.joblib, item_le.joblib).  classes_ is the   *)
(* sorted list of known ids; the code of an id is its 0-based position.    *)
(***************************************************************************)
ItemClasses == <<"p1", "p2", "p3">>

UserClasses == <<"u1">>

\* str(code) of a Python int
DigitStr == <<"0", "1", "2", "3", "4", "5">>

CodeStr(c) == DigitStr[c + 1]

\* le.transform([x])[0]: the code of x, ValueError on an unseen label
transform(classes, x) ==
    IF x \in Range(classes)
    THEN Returned((CHOOSE i \in 1..Len(classes) : classes[i] = x) - 1)
    ELSE Raised

\* le.inverse_transform([c])[0]: the id of code c, ValueError outside 0..n-1
inverse_transform(classes, c) ==
    IF c >= 0 /\ c < Len(classes) THEN Returned(classes[c + 1]) ELSE Raised

\* [inverse_transform([c])[0] for c in codes]: raises when one element does
RECURSIVE inverse_all(_, _)
inverse_all(classes, codes) ==
    IF codes = <<>> THEN Returned(<<>>)
    ELSE LET h == inverse_transform(classes, Head(codes))
             t == inverse_all(classes, Tail(codes))
         IN IF h.exc \/ t.exc THEN Raised ELSE Returned(<<h.val>> \o t.val)

(***************************************************************************)
(* Artifact files.                                                         *)
(***************************************************************************)
Required == {"als", "user_le", "item_le", "user_item_matrix", "prod_meta"}

Core == {"als", "user_le", "item_le", "user_item_matrix"}

Optional == {"co_view", "popular", "cat_rel"}

Files == Required \cup Optional

\* a file is absent, present but unparsable, or present and loadable
Statuses == {"missing", "corrupt", "ok"}

\* item_code cell of prod_meta.csv that is NaN
NaNCode == -1

\* a text cell that is NaN, and str() of a cell
NaNCell == "<NaN>"

StrCell(x) == IF x = NaNCell THEN "nan" ELSE x

EmptyMeta == [title |-> "", category_id |-> "", brand |-> "", price |-> ""]

\* the entry prod_meta_index gets for a row
CodeEntry(r, cols) ==
    [item_id |-> IF "item_id" \in cols THEN StrCell(r.item_id) ELSE "",
     title |-> r.title, category_id |-> r.category_id,
     brand |-> r.brand, price |-> r.price]

\* the entry prod_meta_by_itemid gets for a row
IdEntry(r) ==
    [title |-> r.title, category_id |-> r.category_id,
     brand |-> r.brand, price |-> r.price]

\* prod_meta_index after the first k rows: later rows overwrite earlier ones
RECURSIVE BuildCodeIndex(_, _, _)
BuildCodeIndex(rows, cols, k) ==
    IF k = 0 \/ "item_code" \notin cols THEN EmptyDict
    ELSE LET prev == BuildCodeIndex(rows, cols, k - 1)
             r == rows[k]
         IN IF r.item_code # NaNCode
            THEN Put(prev, CodeStr(r.item_code), CodeEntry(r, cols))
            ELSE prev

\* prod_meta_by_itemid after the first k rows
RECURSIVE BuildIdIndex(_, _, _)
BuildIdIndex(rows, cols, k) ==
    IF k = 0 \/ "item_id" \notin cols THEN EmptyDict
    ELSE LET prev == BuildIdIndex(rows, cols, k - 1)
             r == rows[k]
         IN Put(prev, StrCell(r.item_id), IdEntry(r))

\* cat_rel_map after the first k rows: setdefault(mc, set()).add(rc)
RECURSIVE BuildCatRelMap(_, _)
BuildCatRelMap(rows, k) ==
    IF k = 0 THEN EmptyDict
    ELSE LET prev == BuildCatRelMap(rows, k - 1)
             r == rows[k]
             mc == StrCell(r.main_category)
             rc == StrCell(r.related_category)
         IN Put(prev, mc, Get(prev, mc, {}) \cup {rc})

NoArt == [loaded |-> FALSE]

\* variant: prod_meta.csv is not treated as required
StartupErrorCoreOnly(d) ==
    IF \E f \in Core : d[f].status = "missing" THEN "missing"
    ELSE IF \E f \in Core : d[f].status = "corrupt" THEN "core"
    ELSE ""

\* the error load_artifacts reports before it returns None ("" when none):
\* a required file is missing, a core artifact or prod_meta.csv fails to load
StartupError(d) ==
    IF \E f \in Required : d[f].status = "missing" THEN "missing"
    ELSE IF \E f \in Core : d[f].status = "corrupt" THEN "core"
    ELSE IF d["prod_meta"].status = "corrupt" THEN "prod_meta"
    ELSE ""

\* an optional artifact: its content when the file exists and loads, else
\* the empty structure
LoadOptional(d, f, empty) ==
    IF d[f].status = "ok" THEN d[f].content ELSE empty

\* load_artifacts: the error reported and the returned dict (or None)
LoadResult(d) ==
    IF StartupError(d) # ""
    THEN [err |-> StartupError(d), art |-> NoArt]
    ELSE [err |-> "",
          art |-> [loaded |-> TRUE,
                   model |-> d["als"].content,
                   user_item_matrix |-> d["user_item_matrix"].content,
                   co_view_top |-> LoadOptional(d, "co_view", EmptyDict),
                   popular_items |-> LoadOptional(d, "popular", <<>>),
                   prod_meta_index |->
                       BuildCodeIndex(d["prod_meta"].content.rows,
                                      d["prod_meta"].content.cols,
                                      Len(d["prod_meta"].content.rows)),
                   prod_meta_by_itemid |->
                       BuildIdIndex(d["prod_meta"].content.rows,
                                    d["prod_meta"].content.cols,
                                    Len(d["prod_meta"].content.rows)),
                   cat_rel_map |->
                       LET rows == LoadOptional(d, "cat_rel", <<>>)
                       IN BuildCatRelMap(rows, Len(rows))]]

(***************************************************************************)
(* Helpers of the request handler.                                         *)
(***************************************************************************)
\* variant: no fallback to the item_id table once the id has a code
get_meta_code_only(a, item_id) ==
    LET t == transform(ItemClasses, item_id)
    IN IF ~t.exc
       THEN Get(a.prod_meta_index, CodeStr(t.val), EmptyMeta)
       ELSE Get(a.prod_meta_by_itemid, StrCell(item_id), EmptyMeta)

\* get_meta_by_item_id: by code first, then by item_id, then all-empty
get_meta_by_item_id(a, item_id) ==
    LET t == transform(ItemClasses, item_id)
    IN IF ~t.exc /\ CodeStr(t.val) \in DOMAIN a.prod_meta_index
       THEN a.prod_meta_index[CodeStr(t.val)]
       ELSE Get(a.prod_meta_by_itemid, StrCell(item_id), EmptyMeta)

\* model.recommend(u_idx, user_item_matrix, N=N): the N best codes of the
\* user's ranking; raises on a malformed matrix
recommend(a, u_idx, N) ==
    IF a.user_item_matrix # "ok" \/ u_idx + 1 > Len(a.model) THEN Raised
    ELSE Returned(Take(a.model[u_idx + 1], N))

als_recommend(a, user_id, N) ==
    IF user_id \notin Range(UserClasses) THEN <<>>
    ELSE LET u == transform(UserClasses, user_id)
             recs == IF u.exc THEN Raised ELSE recommend(a, u.val, N)
             ids == IF recs.exc THEN Raised
                    ELSE inverse_all(ItemClasses, recs.val)
         IN IF ids.exc THEN <<>> ELSE ids.val

co_view_recommend(a, item_id, N) ==
    LET t == transform(ItemClasses, item_id)
        ids == IF t.exc THEN Raised
               ELSE inverse_all(ItemClasses,
                                Take(Get(a.co_view_top, CodeStr(t.val), <<>>), N))
    IN IF ids.exc THEN <<>> ELSE ids.val

\* the popularity candidates of the handler: no exception is caught here
popular_candidates(a, N) ==
    IF a.popular_items # <<>>
    THEN inverse_all(ItemClasses, Take(a.popular_items, N * PopFactor))
    ELSE Returned(<<>>)

\* allowed_categories: None, or a set of categories
AllowNone == [isNone |-> TRUE, cats |-> {}]

AllowSet(S) == [isNone |-> FALSE, cats |-> S]

\* variant: the related categories are not added
allowed_own_category(a, item_id) ==
    IF item_id = "" THEN AllowNone
    ELSE LET curr_cat == get_meta_by_item_id(a, item_id).category_id
         IN IF curr_cat = "" THEN AllowNone ELSE AllowSet({curr_cat})

\* the derivation of allowed_categories from the reference item
allowed_categories_of(a, item_id) ==
    IF item_id = "" THEN AllowNone
    ELSE LET curr_cat == get_meta_by_item_id(a, item_id).category_id
         IN IF curr_cat = "" THEN AllowNone
            ELSE IF curr_cat \in DOMAIN a.cat_rel_map
            THEN AllowSet({curr_cat} \cup a.cat_rel_map[curr_cat])
            ELSE AllowSet({curr_cat})

\* variant: a kept candidate is kept once
RECURSIVE filter_from_once(_, _, _, _)
filter_from_once(a, cands, allowed, i) ==
    IF i > Len(cands) THEN <<>>
    ELSE LET it == cands[i]
             rest == filter_from_once(a, cands, allowed, i + 1)
         IN IF get_meta_by_item_id(a, it).category_id \in allowed.cats
               /\ it \notin Range(rest)
            THEN <<it>> \o rest ELSE rest

\* filter_by_categories, the loop from candidate i on
RECURSIVE filter_from(_, _, _, _)
filter_from(a, cands, allowed, i) ==
    IF i > Len(cands) THEN <<>>
    ELSE LET it == cands[i]
             rest == filter_from(a, cands, allowed, i + 1)
         IN IF get_meta_by_item_id(a, it).category_id \in allowed.cats
            THEN <<it>> \o rest ELSE rest

filter_by_categories(a, cands, allowed) ==
    IF allowed.isNone THEN cands ELSE filter_from(a, cands, allowed, 1)

(***************************************************************************)
(* The merge.  `steps` is the sequence of the values `final` takes, the    *)
(* last one being the current value.                                       *)
(***************************************************************************)
Last(s) == s[Len(s)]

\* variant: the membership test is dropped
AppendAlways(final, it) == Append(final, it)

\* if it not in final: final.append(it)
AppendIfNew(final, it) ==
    IF it \in Range(final) THEN final ELSE Append(final, it)

\* variant: the quota test is off by one (len(final) > N)
RECURSIVE InnerLoopLate(_, _, _, _)
InnerLoopLate(steps, group, i, N) ==
    IF i > Len(group) THEN steps
    ELSE LET final == AppendIfNew(Last(steps), group[i])
             s2 == Append(steps, final)
         IN IF Len(final) > N THEN s2 ELSE InnerLoopLate(s2, group, i + 1, N)

\* for it in group: ...; if len(final) >= N: break
RECURSIVE InnerLoop(_, _, _, _)
InnerLoop(steps, group, i, N) ==
    IF i > Len(group) THEN steps
    ELSE LET final == AppendIfNew(Last(steps), group[i])
             s2 == Append(steps, final)
         IN IF Len(final) >= N THEN s2 ELSE InnerLoop(s2, group, i + 1, N)

\* variant: the co-view group is taken before the personalized group
RECURSIVE OuterLoopCoFirst(_, _, _, _)
OuterLoopCoFirst(steps, groups, g, N) ==
    IF g > Len(groups) THEN steps
    ELSE LET order == <<2, 1, 3>>
             s2 == InnerLoop(steps, groups[order[g]], 1, N)
         IN IF Len(Last(s2)) >= N THEN s2
            ELSE OuterLoopCoFirst(s2, groups, g + 1, N)

\* for group in (als_f, co_f, pop_f): ...; if len(final) >= N: break
RECURSIVE OuterLoop(_, _, _, _)
OuterLoop(steps, groups, g, N) ==
    IF g > Len(groups) THEN steps
    ELSE LET s2 == InnerLoop(steps, groups[g], 1, N)
         IN IF Len(Last(s2)) >= N THEN s2 ELSE OuterLoop(s2, groups, g + 1, N)

\* variant: the fallback loop runs without the len(final) < N test
FallbackAlways(steps, pop_cands, N) == InnerLoop(steps, pop_cands, 1, N)

\* if len(final) < N: the loop over the unfiltered pop_cands
Fallback(steps, pop_cands, N) ==
    IF Len(Last(steps)) < N THEN InnerLoop(steps, pop_cands, 1, N) ELSE steps

\* variant: the co-view test comes first
ReasonCoFirst(it, als_f, co_f) ==
    IF it \in Range(co_f) THEN "Co-view"
    ELSE IF it \in Range(als_f) THEN "Personalized (ALS)"
    ELSE "Popular"

\* the label of one item in "Why these?"
Reason(it, als_f, co_f) ==
    IF it \in Range(als_f) THEN "Personalized (ALS)"
    ELSE IF it \in Range(co_f) THEN "Co-view"
    ELSE "Popular"

\* the lines written under "Why these?"
WhyThese(final, als_f, co_f) ==
    [k \in 1..Len(final) |->
        [item |-> final[k], reason |-> Reason(final[k], als_f, co_f)]]

\* show_item_info: one row per item
show_item_info(a, items) ==
    [k \in 1..Len(items) |->
        LET meta == get_meta_by_item_id(a, items[k])
        IN [item_id |-> items[k], title |-> meta.title, brand |-> meta.brand,
            category |-> meta.category_id, price |-> meta.price]]

(***************************************************************************)
(* State machine.                                                          *)
(***************************************************************************)
\* the handler's locals before any request
NoReq ==
    [user_id |-> "", item_id |-> "", N |-> 0, ref_meta |-> EmptyMeta,
     allowed |-> AllowNone,
     als_cands |-> <<>>, co_cands |-> <<>>, pop_cands |-> <<>>,
     als_f |-> <<>>, co_f |-> <<>>, pop_f |-> <<>>,
     steps |-> <<>>, merged |-> <<>>, final |-> <<>>,
     table |-> <<>>, why |-> <<>>]

\* art = load_artifacts(BASE_DIR); if art is None: st.stop()
LoadArtifacts ==
    /\ pc = "start"
    /\ LET r == LoadResult(disk)
       IN /\ err' = r.err
          /\ art' = r.art
          /\ pc' = IF r.art.loaded THEN "idle" ELSE "halted"
    /\ UNCHANGED <<disk, req>>

\* the locals of one run of the handler, up to the point it reaches
HandlerRun(a, user_id, item_id, N) ==
    LET allowed == allowed_categories_of(a, item_id)
        als_cands == als_recommend(a, user_id, N * AlsFactor)
        co_cands == co_view_recommend(a, item_id, N * CoFactor)
        pop == popular_candidates(a, N)
        base == [NoReq EXCEPT !.user_id = user_id, !.item_id = item_id,
                    !.N = N,
                    !.ref_meta = IF item_id = "" THEN EmptyMeta
                                 ELSE get_meta_by_item_id(a, item_id),
                    !.allowed = allowed,
                    !.als_cands = als_cands, !.co_cands = co_cands]
    IN IF pop.exc THEN [raised |-> TRUE, locals |-> base]
       ELSE LET pop_cands == pop.val
                als_f == filter_by_categories(a, als_cands, allowed)
                co_f == filter_by_categories(a, co_cands, allowed)
                pop_f == filter_by_categories(a, pop_cands, allowed)
                prio == OuterLoop(<< <<>> >>, <<als_f, co_f, pop_f>>, 1, N)
                steps == Fallback(prio, pop_cands, N)
                final == Last(steps)
            IN [raised |-> FALSE,
                locals |-> [base EXCEPT !.pop_cands = pop_cands,
                               !.als_f = als_f, !.co_f = co_f, !.pop_f = pop_f,
                               !.steps = steps, !.merged = Last(prio),
                               !.final = final,
                               !.table = show_item_info(a, final),
                               !.why = WhyThese(final, als_f, co_f)]]

\* one click on "Get Recommendations" with the widgets holding these values.
\* Every click reruns the script against the cached artifacts and shares
\* nothing else with earlier runs, so one click per run is modelled.
GetRecommendations(user_id, item_id, N) ==
    /\ pc = "idle"
    /\ N >= SliderMin /\ N <= SliderMax
    /\ LET run == HandlerRun(art, user_id, item_id, N)
       IN /\ req' = run.locals
          /\ pc' = IF run.raised THEN "crashed" ELSE "shown"
    /\ UNCHANGED <<disk, err, art>>

(***************************************************************************)
(* Initial states: the files found on disk when the process starts.        *)
(***************************************************************************)
AllOk == [f \in Files |-> "ok"]

BothCols == {"item_code", "item_id"}

Row(code, id, cat, title) ==
    [item_code |-> code, item_id |-> id, title |-> title,
     category_id |-> cat, brand |-> "acme", price |-> "9"]

Rel(mc, rc) == [main_category |-> mc, related_category |-> rc]

\* the files, given each one's status and what the loadable ones hold
MkDisk(st, ranking, matrix, co, pop, meta, catrel) ==
    [f \in Files |->
        [status |-> st[f],
         content |->
            CASE f = "als" -> ranking
              [] f = "user_le" -> UserClasses
              [] f = "item_le" -> ItemClasses
              [] f = "user_item_matrix" -> matrix
              [] f = "co_view" -> co
              [] f = "popular" -> pop
              [] f = "prod_meta" -> meta
              [] f = "cat_rel" -> catrel]]

Fresh ==
    /\ pc = "start"
    /\ err = ""
    /\ art = NoArt
    /\ req = NoReq

\* Merge: the three artifact lists vary; p1 has category A, p2 has A or B,
\* p3 has no metadata row (so its category is empty)
InitMerge ==
    /\ Fresh
    /\ \E als \in SeqsUpTo({1, 2}, MaxLen), co \in SeqsUpTo({1, 2}, MaxLen),
          pop \in SeqsUpTo({0, 1, 2}, MaxLen), c2 \in {"A", "B"} :
          disk = MkDisk(AllOk, <<als>>, "ok",
                        [k \in {"0", "2"} |-> co], pop,
                        [cols |-> BothCols,
                         rows |-> <<Row(0, "p1", "A", "T1"),
                                    Row(1, "p2", c2, "T2")>>],
                        <<>>)

NextMerge ==
    \/ LoadArtifacts
    \/ \E item_id \in {"", "p1", "p3"}, N \in 1..MaxN :
          GetRecommendations("u1", item_id, N)

SpecMerge == InitMerge /\ [][NextMerge]_vars

(***************************************************************************)
(* Properties of the merge and of the attribution, under SpecMerge.        *)
(***************************************************************************)
Shown == pc = "shown"

NoDup(s) == \A i, j \in 1..Len(s) : i # j => s[i] # s[j]

\* position of the first occurrence of x in s
FirstPos(s, x) ==
    CHOOSE i \in 1..Len(s) : s[i] = x /\ \A j \in 1..(i - 1) : s[j] # x

\* the items of the three filtered groups, and of all four sources
InGroups == Range(req.als_f) \cup Range(req.co_f) \cup Range(req.pop_f)

InSources == InGroups \cup Range(req.pop_cands)

\* the items of the result that are in none of the filtered groups
Backfilled == Range(req.final) \ InGroups

\* C1: the merged result has min(N, D) items, D the number of distinct items
\* of the four source lists: never more than N, and fewer than N only when
\* every item of the four sources is in the result.
C1_MergeLength ==
    Shown =>
        /\ Len(req.final) = Min(req.N, Cardinality(InSources))
        /\ Len(req.final) <= req.N
        /\ (Len(req.final) < req.N => InSources \subseteq Range(req.final))

\* a short result that needed the backfill
C1_Witness ==
    /\ Shown
    /\ Len(req.final) < req.N
    /\ Len(req.final) > Len(req.merged)

\* C2: no value `final` takes during the priority pass and the backfill
\* pass, and not the result, holds an item id twice.
C2_NoDuplicates ==
    Shown =>
        /\ \A k \in 1..Len(req.steps) : NoDup(req.steps[k])
        /\ NoDup(req.final)

\* an item that is twice in the personalized group and also in the co-view
\* group and in the unfiltered popularity list
C2_Witness ==
    /\ Shown
    /\ \E i, j \in 1..Len(req.als_f) :
          /\ i < j
          /\ req.als_f[i] = req.als_f[j]
          /\ req.als_f[i] \in Range(req.co_f) \cap Range(req.pop_cands)
    /\ Len(req.steps) > 2

\* C3: an item of the personalized group only stands before an item of the
\* co-view group only, and the latter is never in the result while the
\* former is left out.
C3_Priority ==
    Shown =>
        \A a \in Range(req.als_f) \ Range(req.co_f),
           b \in Range(req.co_f) \ Range(req.als_f) :
            /\ (a \in Range(req.final) /\ b \in Range(req.final)
                   => FirstPos(req.final, a) < FirstPos(req.final, b))
            /\ ~(b \in Range(req.final) /\ a \notin Range(req.final))

\* a personalized-only and a co-view-only item are both in the result
C3_Witness ==
    /\ Shown
    /\ \E a \in Range(req.als_f) \ Range(req.co_f),
          b \in Range(req.co_f) \ Range(req.als_f) :
          a \in Range(req.final) /\ b \in Range(req.final)

\* the label the attribution is expected to give, `personal` being the text
\* used for the personalized group
ExpectedLabel(it, personal) ==
    IF it \in Range(req.als_f) THEN personal
    ELSE IF it \in Range(req.co_f) THEN "Co-view"
    ELSE "Popular"

Attribution(personal) ==
    /\ Len(req.why) = Len(req.final)
    /\ \A k \in 1..Len(req.final) :
          /\ req.why[k].item = req.final[k]
          /\ req.why[k].reason = ExpectedLabel(req.final[k], personal)
    /\ Len(req.table) = Len(req.final)
    /\ \A k \in 1..Len(req.final) : req.table[k].item_id = req.final[k]

\* C8 as stated: the label of the personalized group is 'Personalized'.
C8_Original == Shown => Attribution("Personalized")

\* C8 amended: every item of the result gets one label, in result order:
\* 'Personalized (ALS)' when it is in the personalized group, else 'Co-view'
\* when it is in the co-view group, else 'Popular'.
C8_Attribution == Shown => Attribution("Personalized (ALS)")

\* an item of both groups and a backfilled item are labelled
C8_Witness ==
    /\ Shown
    /\ \E k \in 1..Len(req.final) :
          req.final[k] \in Range(req.als_f) \cap Range(req.co_f)
    /\ Backfilled # {}

\* the candidates the category filter removed from the personalized and the
\* co-view list
Removed ==
    (Range(req.als_cands) \ Range(req.als_f))
        \cup (Range(req.co_cands) \ Range(req.co_f))

BackfillLastResort ==
    /\ \A x \in Backfilled :
          /\ Cardinality(InGroups) < req.N
          /\ x \in Range(req.pop_cands)
          /\ \A y \in Range(req.final) \cap InGroups :
                FirstPos(req.final, y) < FirstPos(req.final, x)
          /\ \A z \in Backfilled :
                (FirstPos(req.final, x) < FirstPos(req.final, z))
                    <=> (FirstPos(req.pop_cands, x) < FirstPos(req.pop_cands, z))
    /\ (req.allowed.isNone => req.final = req.merged /\ Backfilled = {})

\* C10 as stated: ... and a candidate the filter removed is never in the
\* result.
C10_Original ==
    Shown => BackfillLastResort /\ Removed \cap Range(req.final) = {}

\* C10 amended: an item of none of the filtered groups is in the result only
\* if the groups hold fewer than N distinct items; it is then an item of the
\* unfiltered popularity list, stands after the items of the groups, in the
\* order of that list; without a category restriction the backfill adds
\* nothing; a removed personalized or co-view candidate comes back only as
\* such a backfilled popularity item.
C10_Backfill ==
    Shown =>
        /\ BackfillLastResort
        /\ Removed \cap Range(req.final) \subseteq
               (Backfilled \cap Range(req.pop_cands))

\* a removed personalized candidate is backfilled after an item of a group
C10_Witness ==
    /\ Shown
    /\ Range(req.als_cands) \ Range(req.als_f) # {}
    /\ (Range(req.als_cands) \ Range(req.als_f)) \cap Range(req.final) # {}
    /\ req.merged # <<>>

(***************************************************************************)
(* Startup, under SpecStartup: every file may be missing, unparsable or    *)
(* loadable; what the loadable files hold is fixed.                        *)
(***************************************************************************)
SampleMeta ==
    [cols |-> BothCols,
     rows |-> <<Row(0, "p1", "A", "T1"), Row(1, "p2", "B", "T2")>>]

SampleCoView == [k \in {"0"} |-> <<1, 2>>]

InitStartup ==
    /\ Fresh
    /\ \E st \in [Files -> Statuses] :
          disk = MkDisk(st, << <<0, 1>> >>, "ok", SampleCoView, <<2, 0>>,
                        SampleMeta, <<Rel("A", "B")>>)

NextStartup ==
    \/ LoadArtifacts
    \/ \E item_id \in {"", "p1"}, N \in 1..MaxN :
          GetRecommendations("u1", item_id, N)

SpecStartup == InitStartup /\ [][NextStartup]_vars

\* a request has been handled, or the handler can run
Serving == pc \in {"idle", "shown", "crashed"} \/ req # NoReq

\* C9: requests are served only when the model, both encoders, the matrix
\* and the product metadata were present and loaded; otherwise startup
\* reports an error and halts; a missing or unreadable co-view map,
\* popularity list or category-relationship file leaves startup successful
\* with an empty structure in its place.
C9_StartupGating ==
    /\ (Serving => \A f \in Required : disk[f].status = "ok")
    /\ (pc # "start" /\ (\E f \in Required : disk[f].status # "ok")
           => pc = "halted" /\ err # "" /\ ~art.loaded /\ req = NoReq)
    /\ (pc # "start" /\ (\A f \in Required : disk[f].status = "ok")
           => /\ pc # "halted" /\ err = "" /\ art.loaded
              /\ (disk["co_view"].status # "ok"
                     => art.co_view_top = EmptyDict)
              /\ (disk["popular"].status # "ok" => art.popular_items = <<>>)
              /\ (disk["cat_rel"].status # "ok"
                     => art.cat_rel_map = EmptyDict))

\* a request is served although the three optional files are missing or
\* unreadable
C9_Witness ==
    /\ Shown
    /\ disk["co_view"].status = "missing"
    /\ disk["popular"].status = "corrupt"
    /\ disk["cat_rel"].status = "missing"
    /\ req.final = <<"p1">>

(***************************************************************************)
(* Metadata resolution, under SpecResolve: the rows and the columns of     *)
(* prod_meta.csv vary, so the code-indexed and the item_id-indexed table   *)
(* may disagree.                                                           *)
(***************************************************************************)
MetaRows ==
    {Row(c, id, "A", t) :
        c \in {NaNCode, 0, 1}, id \in {"p1", "p2", "zz"}, t \in {"T1", "T2"}}

InitResolve ==
    /\ Fresh
    /\ \E rows \in SeqsUpTo(MetaRows, MaxRows),
          cols \in {BothCols, {"item_id"}, {"item_code"}} :
          disk = MkDisk(AllOk, << <<0, 1>> >>, "ok", SampleCoView, <<2, 0>>,
                        [cols |-> cols, rows |-> rows], <<>>)

NextResolve ==
    \/ LoadArtifacts
    \/ \E item_id \in {"", "p1", "p2", "p3", "zz"} :
          GetRecommendations("u1", item_id, SliderMin)

SpecResolve == InitResolve /\ [][NextResolve]_vars

\* what the resolution order gives for item_id from the two loaded tables
Resolved(item_id) ==
    LET known == \E i \in 1..Len(ItemClasses) : ItemClasses[i] = item_id
        key == CodeStr((CHOOSE i \in 1..Len(ItemClasses) :
                            ItemClasses[i] = item_id) - 1)
    IN IF known /\ key \in DOMAIN art.prod_meta_index
       THEN art.prod_meta_index[key]
       ELSE IF item_id \in DOMAIN art.prod_meta_by_itemid
       THEN art.prod_meta_by_itemid[item_id]
       ELSE EmptyMeta

\* C7: the metadata of the reference item and of every displayed item is
\* the code-indexed entry when the id has a code with an entry, else the
\* item_id-indexed entry when there is one, else the all-empty record, and
\* no request fails for it.
C7_Resolution ==
    /\ pc # "crashed"
    /\ (Shown =>
          /\ (req.item_id # "" => req.ref_meta = Resolved(req.item_id))
          /\ \A k \in 1..Len(req.final) :
                LET m == Resolved(req.final[k])
                IN /\ req.table[k].title = m.title
                   /\ req.table[k].category = m.category_id
                   /\ req.table[k].brand = m.brand
                   /\ req.table[k].price = m.price)

\* the id has a code, the code has no entry, the item_id table has one
C7_Witness ==
    /\ Shown
    /\ req.item_id = "p2"
    /\ "1" \notin DOMAIN art.prod_meta_index
    /\ "p2" \in DOMAIN art.prod_meta_by_itemid
    /\ req.ref_meta.title # ""

(***************************************************************************)
(* Category filter and allowed categories, under SpecFilter: the           *)
(* categories of p1 and p2, the category relationships and the model's     *)
(* ranking vary.                                                           *)
(***************************************************************************)
CatRelFiles ==
    {<<>>, <<Rel("A", "B")>>, <<Rel("A", "B"), Rel("A", "C")>>,
     <<Rel("B", "A")>>, <<Rel(NaNCell, "A"), Rel("B", NaNCell)>>}

InitFilter ==
    /\ Fresh
    /\ \E c1 \in {"", "A", "B"}, c2 \in {"", "A", "B"},
          catrel \in CatRelFiles, als \in SeqsUpTo({0, 1, 2}, MaxLen) :
          disk = MkDisk(AllOk, <<als>>, "ok",
                        [k \in {"0", "1"} |-> <<1, 0, 2>>], <<2, 1, 0, 1>>,
                        [cols |-> BothCols,
                         rows |-> <<Row(0, "p1", c1, "T1"),
                                    Row(1, "p2", c2, "T2")>>],
                        catrel)

NextFilter ==
    \/ LoadArtifacts
    \/ \E item_id \in {"", "p1", "p2", "zz"}, N \in 1..MaxN :
          GetRecommendations("u1", item_id, N)

SpecFilter == InitFilter /\ [][NextFilter]_vars

\* the category the metadata tables give an item
CategoryOf(it) == Resolved(it).category_id

\* out is cands restricted to the positions whose category is allowed
KeepsAllowed(cands, out) ==
    LET keep == {i \in 1..Len(cands) : CategoryOf(cands[i]) \in req.allowed.cats}
        nth(k) == CHOOSE i \in keep : Cardinality({j \in keep : j <= i}) = k
    IN /\ Len(out) = Cardinality(keep)
       /\ \A k \in 1..Len(out) : out[k] = cands[nth(k)]

FilterOf(cands, out) ==
    IF req.allowed.isNone THEN out = cands ELSE KeepsAllowed(cands, out)

\* C4: each filtered list is its candidate list unchanged when there is no
\* restriction, and otherwise exactly the candidates whose category is
\* allowed, as often as they occur and in the same order.
C4_Filter ==
    Shown =>
        /\ FilterOf(req.als_cands, req.als_f)
        /\ FilterOf(req.co_cands, req.co_f)
        /\ FilterOf(req.pop_cands, req.pop_f)

\* the filter removes a candidate and keeps another one twice
C4_Witness ==
    /\ Shown
    /\ ~req.allowed.isNone
    /\ Len(req.pop_f) < Len(req.pop_cands)
    /\ ~NoDup(req.pop_f)
    /\ Len(req.als_f) < Len(req.als_cands)

\* the related categories the relationship file gives a category
RelatedOnDisk(cat) ==
    LET rows == IF disk["cat_rel"].status = "ok"
                THEN disk["cat_rel"].content ELSE <<>>
    IN {StrCell(rows[i].related_category) :
           i \in {j \in 1..Len(rows) : StrCell(rows[j].main_category) = cat}}

\* C6: with a reference item whose category is not empty the allowed set is
\* that category and its related categories; with no reference item or an
\* empty category there is no restriction and no list is filtered; the
\* relationship map stays what the file gave.
C6_AllowedCategories ==
    /\ (art.loaded =>
          /\ DOMAIN art.cat_rel_map =
                {c \in {"A", "B", "C", "nan"} : RelatedOnDisk(c) # {}}
          /\ \A c \in DOMAIN art.cat_rel_map :
                art.cat_rel_map[c] = RelatedOnDisk(c))
    /\ (Shown =>
          LET cat == IF req.item_id = "" THEN ""
                     ELSE CategoryOf(req.item_id)
          IN IF cat = ""
             THEN /\ req.allowed.isNone
                  /\ req.als_f = req.als_cands
                  /\ req.co_f = req.co_cands
                  /\ req.pop_f = req.pop_cands
             ELSE /\ ~req.allowed.isNone
                  /\ req.allowed.cats = {cat} \cup RelatedOnDisk(cat))

\* a related category is allowed and lets a candidate through
C6_Witness ==
    /\ Shown
    /\ req.item_id = "p1"
    /\ req.allowed = AllowSet({"A", "B"})
    /\ "p2" \in Range(req.pop_f)
    /\ CategoryOf("p2") = "B"

(***************************************************************************)
(* Failures inside the generators, under SpecFail: the lists may hold a    *)
(* code the item encoder does not know, the matrix may be malformed, the   *)
(* user and the item may be unknown.                                       *)
(***************************************************************************)
InitFail ==
    /\ Fresh
    /\ \E pop \in SeqsUpTo(0..Len(ItemClasses), MaxLen),
          co \in {<<>>, <<1>>, <<3>>, <<1, 3>>},
          als \in {<<0>>, <<3>>, <<0, 3>>},
          matrix \in {"ok", "malformed"} :
          disk = MkDisk(AllOk, <<als>>, matrix, [k \in {"0"} |-> co], pop,
                        SampleMeta, <<>>)

NextFail ==
    \/ LoadArtifacts
    \/ \E user_id \in {"", "u1", "u9"}, item_id \in {"", "p1", "zz"},
          N \in 1..MaxN :
          GetRecommendations(user_id, item_id, N)

SpecFail == InitFail /\ [][NextFail]_vars

\* C5: once startup has succeeded no request fails: every request reaches
\* the display, a generator that failed contributing an empty list.
C5_NoRequestFails ==
    art.loaded => pc # "crashed"

====
